---- MODULE Spec2Model ----
(***************************************************************************)
(* Secondary Market Eve (examples/real-estate/secondary_market_eve.py):    *)
(* the in-memory lead marketplace.  One SecondaryMarketEve object holds    *)
(* investors, lead_packages, marketplace_listings and revenue_metrics; the *)
(* HTTP handlers run as coroutines on one event loop and interleave only   *)
(* where a coroutine suspends.                                             *)
(*                                                                         *)
(* Representation.  A Python str is a tuple of one-character strings, so   *)
(* that lower() and the `in` substring test are computed.  Scores and ROI  *)
(* percentages are integers (the thresholds of the code are integers).  A  *)
(* price is a whole number of dollars: every base price times 1.5 is       *)
(* whole, so the market multiplier is carried in tenths.  A Python dict is *)
(* a function on its key set.  package_id "PKG_<zpid>_<seconds>" is the    *)
(* pair <<zpid, seconds>>, listing_id "LIST_<package_id>" is the pair      *)
(* <<"LIST", package_id>>.                                                 *)
(*                                                                         *)
(* The investment analyzer of the scraper                                  *)
(* (examples/real-estate/zillow_visual_scraper.py) is a pure function of a *)
(* property and its distress signals.  Its amounts pass through * 0.15, so *)
(* estimated_repairs and potential_profit are carried in twentieths of a   *)
(* dollar, and roi_percentage is the exact fraction num / den with den > 0 *)
(* (the float rounding of the code is not modelled).                       *)
(***************************************************************************)
EXTENDS Integers, Sequences, FiniteSets, Bags, TLC

VARIABLES
    investors,             \* self.investors: investor_id -> InvestorProfile
    lead_packages,         \* self.lead_packages: package_id -> LeadPackage
    marketplace_listings,  \* self.marketplace_listings: listing_id -> MarketplaceListing
    revenue_metrics,       \* self.revenue_metrics
    stripe_api_key,        \* stripe.api_key is set (STRIPE_SECRET_KEY in the environment)
    now,                   \* int(datetime.now().timestamp())
    lead_calls,            \* process_overflow_lead calls suspended in asyncio.gather
    purchase_calls,        \* process_purchase calls at the await of line 245
    emitted,               \* notifications printed by the latest _match_with_investors
    last_response,         \* what the latest finished handler returned or raised
    accepted,              \* number of process_overflow_lead calls that passed the gate
    sales,                 \* the purchase results with purchase_successful = True, in order
    overlapped,            \* two purchases of different packages were in flight together
    inbox,                 \* the request bodies waiting at POST /process-overflow-lead
    analysis               \* the generate_investment_analysis calls of the scraper, each
                           \* with its arguments and, once it has run, its outcome

vars == <<investors, lead_packages, marketplace_listings, revenue_metrics,
          stripe_api_key, now, lead_calls, purchase_calls, emitted,
          last_response, accepted, sales, overlapped, inbox, analysis>>

None == "None"

\* An Optional value that is compared with None: <<>> is None, <<v>> is v.
NoValue == <<>>

Some(v) == <<v>>

----------------------------------------------------------------------------
(* Bounds of the model. *)

MaxClock == 1       \* the clock runs over the seconds 0..MaxClock
MaxLeads == 2       \* accepted process_overflow_lead calls
MaxInflight == 1    \* process_overflow_lead calls suspended in gather at one time
MaxPurchases == 2   \* process_purchase calls that reach the payment

----------------------------------------------------------------------------
(* Python dict and str primitives. *)

EmptyDict == [k \in {} |-> None]

Put(d, k, v) == [x \in (DOMAIN d) \cup {k} |-> IF x = k THEN v ELSE d[x]]

Del(d, k) == [x \in (DOMAIN d) \ {k} |-> d[x]]

Get(d, k, default) == IF k \in DOMAIN d THEN d[k] ELSE default

UpperLetters == <<"A","B","C","D","E","F","G","H","I","J","K","L","M",
                  "N","O","P","Q","R","S","T","U","V","W","X","Y","Z">>

LowerLetters == <<"a","b","c","d","e","f","g","h","i","j","k","l","m",
                  "n","o","p","q","r","s","t","u","v","w","x","y","z">>

LowerChar(c) ==
    IF \E i \in 1..26 : UpperLetters[i] = c
    THEN LowerLetters[CHOOSE i \in 1..26 : UpperLetters[i] = c]
    ELSE c

StrLower(s) == [i \in 1..Len(s) |-> LowerChar(s[i])]

StrIn(needle, hay) ==
    \E i \in 0..(Len(hay) - Len(needle)) :
        SubSeq(hay, i + 1, i + Len(needle)) = needle

StrPrefix(s, n) == SubSeq(s, 1, IF Len(s) < n THEN Len(s) ELSE n)

----------------------------------------------------------------------------
(* LeadTier and the pricing table. *)

BRONZE == "bronze"
SILVER == "silver"
GOLD == "gold"
PLATINUM == "platinum"

LeadTier == {BRONZE, SILVER, GOLD, PLATINUM}

base_prices == [t \in LeadTier |->
    CASE t = BRONZE -> 50
      [] t = SILVER -> 150
      [] t = GOLD -> 300
      [] t = PLATINUM -> 500]

hot_markets == { <<"a","u","s","t","i","n">>,
                 <<"d","a","l","l","a","s">>,
                 <<"h","o","u","s","t","o","n">>,
                 <<"a","t","l","a","n","t","a">>,
                 <<"p","h","o","e","n","i","x">> }

SevenDays == 604800   \* timedelta(days=7) in seconds

\* _classify_lead_tier with the gold rule tried before the platinum rule.
_classify_lead_tier_gold_first(intel) ==
    LET distress == intel.distress_signals.overall_score
        roi == Get(intel.investment_opportunity, "roi_percentage", 0)
        has_photos == Len(intel.property.photos) > 0
        geom_score == Get(intel.geometric_analysis, "overall_visual_score", 0)
    IN  IF distress > 60 /\ roi > 15 /\ geom_score > 0
        THEN GOLD
        ELSE IF distress > 70 /\ roi > 20 /\ intel.contract_recommendation = "IMMEDIATE_OFFER"
        THEN PLATINUM
        ELSE IF distress > 50 /\ roi > 12 /\ has_photos
        THEN SILVER
        ELSE BRONZE

\* _classify_lead_tier: the first rule that matches, top down.
_classify_lead_tier(intel) ==
    LET distress == intel.distress_signals.overall_score
        roi == Get(intel.investment_opportunity, "roi_percentage", 0)
        has_photos == Len(intel.property.photos) > 0
        geom_score == Get(intel.geometric_analysis, "overall_visual_score", 0)
    IN  IF distress > 70 /\ roi > 20 /\ intel.contract_recommendation = "IMMEDIATE_OFFER"
        THEN PLATINUM
        ELSE IF distress > 60 /\ roi > 15 /\ geom_score > 0
        THEN GOLD
        ELSE IF distress > 50 /\ roi > 12 /\ has_photos
        THEN SILVER
        ELSE BRONZE

\* _calculate_market_multiplier without the .lower() of line 164.
_calculate_market_multiplier_case_sensitive(neighborhood) ==
    IF \E city \in hot_markets : StrIn(city, neighborhood)
    THEN 15
    ELSE 10

\* _calculate_market_multiplier, in tenths: 15 is 1.5 and 10 is 1.0.
_calculate_market_multiplier(neighborhood) ==
    IF \E city \in hot_markets : StrIn(city, StrLower(neighborhood))
    THEN 15
    ELSE 10

\* final_price = base_price * multiplier (lines 124-125).
FinalPrice(tier, neighborhood) ==
    (base_prices[tier] * _calculate_market_multiplier(neighborhood)) \div 10

\* The gate with <= in place of < on the distress score.
BelowThreshold_exclusive(intel) ==
    LET distress_score == intel.distress_signals.overall_score
        roi_potential == Get(intel.investment_opportunity, "roi_percentage", 0)
    IN  distress_score <= 40 \/ roi_potential < 10

\* The gate of process_overflow_lead (lines 118-121): TRUE when the lead is rejected.
BelowThreshold(intel) ==
    LET distress_score == intel.distress_signals.overall_score
        roi_potential == Get(intel.investment_opportunity, "roi_percentage", 0)
    IN  distress_score < 40 \/ roi_potential < 10

PackageId(intel, clock) == <<intel.property.zpid, clock>>

\* The tier-gated fields of the package (lines 133-137).
GeometricAnalysisIncluded_gold_only(tier) == tier = GOLD

GeometricAnalysisIncluded(tier) == tier \in {GOLD, PLATINUM}

ContractTemplateIncluded(tier) == tier = PLATINUM

MarketCompsIncluded(tier) == tier # BRONZE

ExclusivePeriodHours(tier) == IF tier = PLATINUM THEN 24 ELSE 12

\* The LeadPackage built at lines 128-140.
NewPackage(intel, clock) ==
    LET tier == _classify_lead_tier(intel)
    IN  [ package_id |-> PackageId(intel, clock),
          property_intelligence |-> intel,
          lead_tier |-> tier,
          price |-> FinalPrice(tier, intel.property.neighborhood),
          geometric_analysis_included |-> GeometricAnalysisIncluded(tier),
          contract_template_included |-> ContractTemplateIncluded(tier),
          market_comps_included |-> MarketCompsIncluded(tier),
          roi_projection |-> intel.investment_opportunity,
          exclusive_period_hours |-> ExclusivePeriodHours(tier),
          created_at |-> clock,
          expires_at |-> clock + SevenDays ]

ListingId(package_id) == <<"LIST", package_id>>

\* The MarketplaceListing built by _create_marketplace_listing (lines 169-191).
NewListing(package) ==
    LET prop == package.property_intelligence.property
    IN  [ listing_id |-> ListingId(package.package_id),
          title |-> StrPrefix(prop.address, 32),
          location |-> prop.neighborhood,
          price_range |-> prop.price,
          distress_score |-> package.property_intelligence.distress_signals.overall_score,
          roi_potential |-> Get(package.property_intelligence.investment_opportunity,
                                "roi_percentage", 0),
          lead_tier |-> package.lead_tier,
          package_price |-> package.price,
          full_package_id |-> package.package_id ]

\* The filter with <= and >= in the price test of line 200.
InvestorMatches_open_range(investor, prop) ==
    IF ~ \E m \in 1..Len(investor.preferred_markets) :
            StrIn(StrLower(investor.preferred_markets[m]), StrLower(prop.address))
    THEN FALSE
    ELSE IF prop.price <= investor.price_range.min \/ prop.price >= investor.price_range.max
    THEN FALSE
    ELSE IF prop.property_type \notin investor.property_types
    THEN FALSE
    ELSE TRUE

\* The filter of _match_with_investors (lines 197-204): TRUE when the investor is kept.
InvestorMatches(investor, prop) ==
    IF ~ \E m \in 1..Len(investor.preferred_markets) :
            StrIn(StrLower(investor.preferred_markets[m]), StrLower(prop.address))
    THEN FALSE
    ELSE IF prop.price < investor.price_range.min \/ prop.price > investor.price_range.max
    THEN FALSE
    ELSE IF prop.property_type \notin investor.property_types
    THEN FALSE
    ELSE TRUE

\* _notify_investor (lines 208-218): one email, and an SMS when a phone is on file.
Notifications(investor, package) ==
    LET payload == [ investor_id |-> investor.investor_id,
                     package_id |-> package.package_id,
                     lead_tier |-> package.lead_tier,
                     price |-> package.price,
                     distress_score |->
                         package.property_intelligence.distress_signals.overall_score ]
    IN  { [channel |-> "email", payload |-> payload] }
        \cup (IF investor.phone # None
              THEN { [channel |-> "sms", payload |-> payload] }
              ELSE {})

\* _prepare_full_package (lines 256-265).
_prepare_full_package(package) ==
    [ property_details |-> package.property_intelligence,
      geometric_analysis |-> IF package.geometric_analysis_included
                             THEN Some(package.property_intelligence.geometric_analysis)
                             ELSE NoValue,
      contract_template |-> Some("Contract template generated..."),
      market_comps |-> IF package.market_comps_included THEN Some("comps") ELSE NoValue,
      roi_calculator |-> package.roi_projection ]

\* _remove_from_marketplace without the test of line 269: the first listing goes.
_remove_from_marketplace_first(listings, package_id) ==
    IF DOMAIN listings = {} THEN { listings } ELSE { Del(listings, l) : l \in DOMAIN listings }

\* _remove_from_marketplace (lines 267-271): deletes the first listing of the
\* package in dict order and stops; every listing that could be first is an outcome.
_remove_from_marketplace(listings, package_id) ==
    LET found == { l \in DOMAIN listings : listings[l].full_package_id = package_id }
    IN  IF found = {} THEN { listings } ELSE { Del(listings, l) : l \in found }

\* Lines 246-247 with = in place of += on total_sales.
RecordSale_assign(metrics, price) ==
    [metrics EXCEPT !.total_sales = price, !.packages_sold = @ + 1]

\* Lines 246-247: the two += on revenue_metrics.
RecordSale(metrics, price) ==
    [metrics EXCEPT !.total_sales = @ + price, !.packages_sold = @ + 1]

----------------------------------------------------------------------------
(* The investment analyzer (zillow_visual_scraper.py lines 296-321). *)

\* Python's n / d: a ZeroDivisionError when d is 0, else the fraction n / d.
TrueDiv(n, d) ==
    IF d = 0
    THEN [ error |-> TRUE, num |-> 0, den |-> 1 ]
    ELSE [ error |-> FALSE, num |-> IF d < 0 THEN 0 - n ELSE n,
                            den |-> IF d < 0 THEN 0 - d ELSE d ]

\* Line 299: property.zestimate or property.price.
MarketValue(property) ==
    IF property.zestimate # NoValue /\ property.zestimate[1] # 0
    THEN property.zestimate[1]
    ELSE property.price

\* Line 300, in twentieths of a dollar: market_value * 0.15 is 3 * market_value / 20.
EstimatedRepairs(market_value, distress) ==
    IF distress.visual_distress THEN 3 * market_value ELSE 0

\* Line 303 without its guard.
RoiPercentage_unguarded(potential_profit, total_investment) ==
    TrueDiv(100 * potential_profit, total_investment)

\* Line 303: (potential_profit / total_investment) * 100 if total_investment else 0.
RoiPercentage(potential_profit, total_investment) ==
    IF total_investment # 0
    THEN TrueDiv(100 * potential_profit, total_investment)
    ELSE [ error |-> FALSE, num |-> 0, den |-> 1 ]

\* Line 311.
InvestmentGrade(roi) ==
    IF roi.num > 25 * roi.den THEN "A"
    ELSE IF roi.num > 15 * roi.den THEN "B"
    ELSE "C"

\* Lines 304-310.
RiskFactors(distress) ==
    (IF distress.high_days_on_market THEN <<"Market resistance">> ELSE <<>>)
    \o (IF distress.visual_distress THEN <<"Repair uncertainty">> ELSE <<>>)
    \o (IF distress.neighborhood_decline THEN <<"Area decline">> ELSE <<>>)

\* generate_investment_analysis: what it returns, or the exception it raises.
generate_investment_analysis(property, distress) ==
    LET market_value == MarketValue(property)
        repairs == EstimatedRepairs(market_value, distress)
        total_investment == 20 * property.price + repairs
        potential_profit == 20 * market_value - total_investment
        roi == RoiPercentage(potential_profit, total_investment)
    IN  IF roi.error
        THEN [ raised |-> "ZeroDivisionError" ]
        ELSE [ raised |-> "nothing",
               market_value |-> market_value,
               current_price |-> property.price,
               estimated_repairs |-> repairs,
               potential_profit |-> potential_profit,
               roi_percentage |-> [ num |-> roi.num, den |-> roi.den ],
               investment_grade |-> InvestmentGrade(roi),
               risk_factors |-> RiskFactors(distress) ]

----------------------------------------------------------------------------
(* The request bodies the handlers are driven with. *)

NorthAustinHeights == <<"N","o","r","t","h"," ","A","u","s","t","i","n"," ","H","e","i","g","h","t","s">>
Topeka == <<"T","o","p","e","k","a">>
DallasUpper == <<"D","A","L","L","A","S">>
AddrAustin == <<"9"," ","E","l","m",","," ","A","U","S","T","I","N">>
AddrTopeka == <<"4"," ","O","a","k",","," ","T","o","p","e","k","a">>
MarketAustin == <<"A","u","s","t","i","n">>
MarketDallas == <<"d","a","l","l","a","s">>
MarketTopeka == <<"T","O","P","E","K","A">>

\* A PropertyIntelligence body (zillow_visual_scraper.py lines 63-109), with the
\* fields the marketplace reads.
Intel(zpid, address, price, ptype, neighborhood, photos, score, io, ga, rec) ==
    [ property |-> [ zpid |-> zpid, address |-> address, price |-> price,
                     property_type |-> ptype,
                     neighborhood |-> neighborhood, photos |-> photos ],
      distress_signals |-> [ overall_score |-> score ],
      geometric_analysis |-> ga,
      investment_opportunity |-> io,
      contract_recommendation |-> rec ]

Roi(r) == [roi_percentage |-> r]

Visual(v) == [overall_visual_score |-> v]

SampleSilver ==
    Intel("z1", AddrAustin, 200000, "single_family", NorthAustinHeights, <<"p1">>,
          55, Roi(13), EmptyDict, "WATCH_LIST")

SamplePlatinum ==
    Intel("z1", AddrAustin, 200000, "single_family", Topeka, <<"p1">>,
          75, Roi(25), Visual(60), "IMMEDIATE_OFFER")

SampleRejected ==
    Intel("z1", AddrTopeka, 90000, "condo", Topeka, <<>>,
          39, Roi(50), EmptyDict, "WATCH_LIST")

\* Bodies for the service as a whole: two pass the gate, one fails it.  They share
\* a zpid, so two of them handled within one second get the same package_id.
Samples == { SampleSilver, SamplePlatinum, SampleRejected }

\* Bodies for one call of the pipeline: every threshold of the gate and of the
\* classifier from both sides, and every side of the investor filter.
TierGrid ==
    { Intel("z1", AddrAustin, 200000, "single_family", n, ph, sc, io, ga, rec) :
        n \in {NorthAustinHeights, Topeka, DallasUpper},
        ph \in {<<>>, <<"p1">>},
        sc \in {39, 40, 50, 51, 60, 61, 70, 71},
        io \in {EmptyDict} \cup {Roi(r) : r \in {9, 10, 12, 13, 15, 16, 20, 21}},
        ga \in {EmptyDict, Visual(0), Visual(1)},
        rec \in {"IMMEDIATE_OFFER", "WATCH_LIST"} }

MatchGrid ==
    { Intel("z1", a, p, ty, Topeka, <<"p1">>, sc, Roi(13), EmptyDict, "WATCH_LIST") :
        a \in {AddrAustin, AddrTopeka},
        p \in {99999, 100000, 300000, 300001},
        ty \in {"single_family", "condo", "land"},
        sc \in {39, 55} }

IntelGrid == TierGrid \cup MatchGrid

\* Bodies that are handled two in a row: one or two for every tier.
TierSamples ==
    { Intel(z, AddrAustin, 200000, "single_family", Topeka, ph, sc, Roi(r), ga, rec) :
        z \in {"z1"},
        ph \in {<<"p1">>},
        sc \in {40, 55, 75},
        r \in {13, 18, 25},
        ga \in {EmptyDict, Visual(60)},
        rec \in {"IMMEDIATE_OFFER"} }

InvestorA ==
    [ investor_id |-> "inv1", email |-> "a@x", phone |-> "555",
      preferred_markets |-> <<MarketDallas, MarketAustin>>,
      price_range |-> [min |-> 100000, max |-> 300000],
      property_types |-> {"single_family"},
      subscription_tier |-> GOLD ]

InvestorB ==
    [ investor_id |-> "inv2", email |-> "b@x", phone |-> None,
      preferred_markets |-> <<MarketTopeka>>,
      price_range |-> [min |-> 0, max |-> 99999],
      property_types |-> {"condo", "single_family"},
      subscription_tier |-> BRONZE ]

InvestorProfiles == { InvestorA, InvestorB }

InvestorIds == { "inv1", "inv2", "nobody" }

Zpids == { "z1" }

PackageIds == Zpids \X (0..MaxClock)

\* The arguments the analyzer is called with: prices and zestimates on both sides
\* of the grade thresholds, zero, an absent zestimate and a negative price.
AnalysisProperties ==
    { [ price |-> p, zestimate |-> z ] :
        p \in {0 - 3, 0, 80, 100},
        z \in {NoValue} \cup { Some(v) : v \in {0, 20, 100, 115, 116, 125, 126} } }

AnalysisDistress ==
    [ high_days_on_market : BOOLEAN, visual_distress : BOOLEAN,
      neighborhood_decline : BOOLEAN ]

\* What stripe.PaymentIntent.create can do: return an intent in some status, or raise.
StripeOutcomes == { "succeeded", "requires_payment_method", "raised" }

----------------------------------------------------------------------------
(* The state after construction (lines 89-100, 274). *)

Init ==
    /\ investors = EmptyDict
    /\ lead_packages = EmptyDict
    /\ marketplace_listings = EmptyDict
    /\ revenue_metrics = [ total_sales |-> 0, packages_sold |-> 0,
                           avg_package_price |-> 0, conversion_rate |-> 0,
                           monthly_recurring |-> 0 ]
    /\ stripe_api_key \in BOOLEAN
    /\ now = 0
    /\ lead_calls = EmptyBag
    /\ purchase_calls = EmptyBag
    /\ emitted = {}
    /\ last_response = [ op |-> "none" ]
    /\ accepted = 0
    /\ sales = <<>>
    /\ overlapped = FALSE
    /\ inbox = <<>>
    /\ analysis = <<>>

\* The same service with one request body of IntelGrid, or two of TierSamples,
\* waiting at POST /process-overflow-lead.
InitLead ==
    /\ investors = EmptyDict
    /\ lead_packages = EmptyDict
    /\ marketplace_listings = EmptyDict
    /\ revenue_metrics = [ total_sales |-> 0, packages_sold |-> 0,
                           avg_package_price |-> 0, conversion_rate |-> 0,
                           monthly_recurring |-> 0 ]
    /\ stripe_api_key = TRUE
    /\ now = 0
    /\ lead_calls = EmptyBag
    /\ purchase_calls = EmptyBag
    /\ emitted = {}
    /\ last_response = [ op |-> "none" ]
    /\ accepted = 0
    /\ sales = <<>>
    /\ overlapped = FALSE
    /\ inbox \in { <<intel>> : intel \in IntelGrid }
                \cup { <<first, second>> : first \in TierSamples, second \in TierSamples }
    /\ analysis = <<>>

\* The scraper with one property to analyse; the marketplace is as constructed.
InitAnalysis ==
    /\ investors = EmptyDict
    /\ lead_packages = EmptyDict
    /\ marketplace_listings = EmptyDict
    /\ revenue_metrics = [ total_sales |-> 0, packages_sold |-> 0,
                           avg_package_price |-> 0, conversion_rate |-> 0,
                           monthly_recurring |-> 0 ]
    /\ stripe_api_key = TRUE
    /\ now = 0
    /\ lead_calls = EmptyBag
    /\ purchase_calls = EmptyBag
    /\ emitted = {}
    /\ last_response = [ op |-> "none" ]
    /\ accepted = 0
    /\ sales = <<>>
    /\ overlapped = FALSE
    /\ inbox = <<>>
    /\ analysis \in { << [ property |-> property, distress |-> distress,
                            outcome |-> NoValue ] >> :
                         property \in AnalysisProperties, distress \in AnalysisDistress }

One(x) == SetToBag({x})

----------------------------------------------------------------------------
(* The handlers. *)

\* The clock moves on between two steps of the event loop.
Tick ==
    /\ now < MaxClock
    /\ now' = now + 1
    /\ UNCHANGED <<investors, lead_packages, marketplace_listings, revenue_metrics,
                   stripe_api_key, lead_calls, purchase_calls, emitted,
                   last_response, accepted, sales, overlapped, inbox, analysis>>

\* POST /register-investor (lines 277-284).
RegisterInvestor(investor) ==
    /\ investors' = Put(investors, investor.investor_id, investor)
    /\ last_response' = [ op |-> "register_investor", status |-> 200,
                          body |-> [ registration_successful |-> TRUE,
                                     investor_id |-> investor.investor_id,
                                     subscription_tier |-> investor.subscription_tier ] ]
    /\ UNCHANGED <<lead_packages, marketplace_listings, revenue_metrics,
                   stripe_api_key, now, lead_calls, purchase_calls, emitted,
                   accepted, sales, overlapped, inbox, analysis>>

\* POST /process-overflow-lead up to the asyncio.gather of line 142; a rejected
\* lead is answered at once (lines 120-121 and 290-291).
ProcessOverflowLead(intel) ==
    IF BelowThreshold(intel)
    THEN /\ last_response' = [ op |-> "process_overflow_lead", status |-> 200,
                               body |-> [ package_created |-> FALSE,
                                          reason |-> "Lead quality below threshold" ] ]
         /\ UNCHANGED <<investors, lead_packages, marketplace_listings,
                        revenue_metrics, stripe_api_key, now, lead_calls,
                        purchase_calls, emitted, accepted, sales, overlapped>>
    ELSE LET package == NewPackage(intel, now)
         IN  /\ lead_packages' = Put(lead_packages, package.package_id, package)
             /\ lead_calls' = lead_calls (+) One([ package |-> package,
                                                   listing_done |-> FALSE,
                                                   match_done |-> FALSE ])
             /\ accepted' = accepted + 1
             /\ UNCHANGED <<investors, marketplace_listings, revenue_metrics,
                            stripe_api_key, now, purchase_calls, emitted,
                            last_response, sales, overlapped>>

\* A request body drawn from Samples.
OverflowLeadRequest ==
    \E intel \in Samples :
        /\ accepted < MaxLeads
        /\ BagCardinality(lead_calls) < MaxInflight
        /\ ProcessOverflowLead(intel)
        /\ UNCHANGED <<inbox, analysis>>

\* The waiting request body is handled.
OverflowLeadFromInbox ==
    /\ inbox # <<>>
    /\ ProcessOverflowLead(Head(inbox))
    /\ inbox' = Tail(inbox)
    /\ UNCHANGED analysis

\* The task gather made of _create_marketplace_listing (lines 168-192).
CreateListingTask ==
    \E c \in BagToSet(lead_calls) :
        /\ ~ c.listing_done
        /\ LET listing == NewListing(c.package)
           IN  marketplace_listings' = Put(marketplace_listings, listing.listing_id, listing)
        /\ lead_calls' = (lead_calls (-) One(c)) (+) One([c EXCEPT !.listing_done = TRUE])
        /\ UNCHANGED <<investors, lead_packages, revenue_metrics, stripe_api_key, now,
                       purchase_calls, emitted, last_response, accepted, sales,
                       overlapped, inbox, analysis>>

\* The task gather made of _match_with_investors (lines 194-206); awaiting
\* _notify_investor does not suspend, so the whole task is one step.
MatchTask ==
    \E c \in BagToSet(lead_calls) :
        /\ ~ c.match_done
        /\ LET prop == c.package.property_intelligence.property
               matches == { i \in DOMAIN investors : InvestorMatches(investors[i], prop) }
           IN  emitted' = UNION { Notifications(investors[i], c.package) : i \in matches }
        /\ lead_calls' = (lead_calls (-) One(c)) (+) One([c EXCEPT !.match_done = TRUE])
        /\ UNCHANGED <<investors, lead_packages, marketplace_listings, revenue_metrics,
                       stripe_api_key, now, purchase_calls, last_response, accepted,
                       sales, overlapped, inbox, analysis>>

\* gather is done: process_overflow_lead returns the package (lines 146, 292-297).
LeadReturn ==
    \E c \in BagToSet(lead_calls) :
        /\ c.listing_done /\ c.match_done
        /\ lead_calls' = lead_calls (-) One(c)
        /\ last_response' = [ op |-> "process_overflow_lead", status |-> 200,
                              body |-> [ package_created |-> TRUE,
                                         package_id |-> c.package.package_id,
                                         lead_tier |-> c.package.lead_tier,
                                         price |-> c.package.price ] ]
        /\ UNCHANGED <<investors, lead_packages, marketplace_listings, revenue_metrics,
                       stripe_api_key, now, purchase_calls, emitted, accepted, sales,
                       overlapped, inbox, analysis>>

\* Lines 223 and 226-227: the two existence checks.
PackageKnown(packages, package_id) == package_id \in DOMAIN packages

\* The investor check left out.
InvestorKnown_unchecked(registered, investor_id) == TRUE

InvestorKnown(registered, investor_id) == investor_id \in DOMAIN registered

\* The test of line 242 against a status Stripe never reports.
PaymentFailed_literal(status) == status = "failed"

\* Line 242: the test on the status of the payment intent.
PaymentFailed(status) == status # "succeeded"

\* What a process_purchase call answers.  request and payment are not sent to
\* the client: they record the arguments of the call and what
\* stripe.PaymentIntent.create did in it.
PurchaseError(request, status, detail, payment) ==
    [ op |-> "process_purchase", request |-> request, status |-> status,
      detail |-> detail, payment |-> payment ]

PurchaseResult(request, body, payment) ==
    [ op |-> "process_purchase", request |-> request, status |-> 200,
      body |-> body, payment |-> payment ]

\* POST /purchase-lead up to the await of line 245 (lines 223-243).
ProcessPurchase(investor_id, package_id) ==
    LET request == [ investor_id |-> investor_id, package_id |-> package_id ]
    IN
    IF ~ PackageKnown(lead_packages, package_id)
    THEN /\ last_response' = PurchaseError(request, 404, "Package not found", "not_attempted")
         /\ UNCHANGED <<purchase_calls, overlapped>>
    ELSE IF ~ InvestorKnown(investors, investor_id)
    THEN /\ last_response' = PurchaseError(request, 404, "Investor not found", "not_attempted")
         /\ UNCHANGED <<purchase_calls, overlapped>>
    ELSE IF ~ stripe_api_key
    THEN /\ last_response' = PurchaseError(request, 500, "Stripe key missing", "not_attempted")
         /\ UNCHANGED <<purchase_calls, overlapped>>
    ELSE \E outcome \in StripeOutcomes :
            IF outcome = "raised"
            THEN /\ last_response' = PurchaseError(request, 500, "Internal Server Error", "raised")
                 /\ UNCHANGED <<purchase_calls, overlapped>>
            ELSE IF PaymentFailed(outcome)
            THEN /\ last_response' = PurchaseResult(request,
                                        [ purchase_successful |-> FALSE,
                                          error |-> "Payment failed" ], outcome)
                 /\ UNCHANGED <<purchase_calls, overlapped>>
            ELSE /\ Len(sales) + BagCardinality(purchase_calls) < MaxPurchases
                 /\ purchase_calls' = purchase_calls (+)
                        One([ request |-> request,
                              package_id |-> package_id,
                              package |-> lead_packages[package_id],
                              payment_intent |-> [ status |-> outcome ] ])
                 /\ overlapped' = (overlapped \/
                        \E c \in BagToSet(purchase_calls) : c.package_id # package_id)
                 /\ UNCHANGED last_response

PurchaseRequest ==
    \E investor_id \in InvestorIds, package_id \in PackageIds :
        /\ ProcessPurchase(investor_id, package_id)
        /\ UNCHANGED <<investors, lead_packages, marketplace_listings, revenue_metrics,
                       stripe_api_key, now, lead_calls, emitted, accepted, sales,
                       inbox, analysis>>

\* process_purchase from the await of line 245 to its return (lines 245-254).
PurchaseResume ==
    \E c \in BagToSet(purchase_calls) :
        LET lead_payload == _prepare_full_package(c.package)
        IN  /\ revenue_metrics' = RecordSale(revenue_metrics, c.package.price)
            /\ marketplace_listings' \in
                   _remove_from_marketplace(marketplace_listings, c.package_id)
            /\ purchase_calls' = purchase_calls (-) One(c)
            /\ sales' = Append(sales, [ package_id |-> c.package_id,
                                        price |-> c.package.price ])
            /\ last_response' = PurchaseResult(c.request,
                                    [ purchase_successful |-> TRUE,
                                      package_data |-> lead_payload,
                                      exclusive_until |-> c.package.expires_at ],
                                    c.payment_intent.status)
            /\ UNCHANGED <<investors, lead_packages, stripe_api_key, now, lead_calls,
                           emitted, accepted, overlapped, inbox, analysis>>

RegisterRequest == \E investor \in InvestorProfiles : RegisterInvestor(investor)

Next ==
    \/ Tick
    \/ RegisterRequest
    \/ OverflowLeadRequest
    \/ CreateListingTask
    \/ MatchTask
    \/ LeadReturn
    \/ PurchaseRequest
    \/ PurchaseResume

Spec == Init /\ [][Next]_vars

\* The waiting bodies are handled, among registrations.
NextLead ==
    \/ Tick
    \/ RegisterRequest
    \/ OverflowLeadFromInbox
    \/ CreateListingTask
    \/ MatchTask
    \/ LeadReturn

SpecLead == InitLead /\ [][NextLead]_vars

\* The call of line 334: generate_investment_analysis runs on a waiting property.
GenerateInvestmentAnalysis ==
    \E i \in DOMAIN analysis :
        /\ analysis[i].outcome = NoValue
        /\ analysis' = [analysis EXCEPT ![i].outcome =
               Some(generate_investment_analysis(analysis[i].property, analysis[i].distress))]
        /\ UNCHANGED <<investors, lead_packages, marketplace_listings, revenue_metrics,
                       stripe_api_key, now, lead_calls, purchase_calls, emitted,
                       last_response, accepted, sales, overlapped, inbox>>

NextAnalysis == GenerateInvestmentAnalysis

SpecAnalysis == InitAnalysis /\ [][NextAnalysis]_vars

----------------------------------------------------------------------------
(* Properties. *)

\* The listings of a package, and the packages a purchase has succeeded for.
ListingsOf(package_id) ==
    { l \in DOMAIN marketplace_listings :
        marketplace_listings[l].full_package_id = package_id }

Purchased == { sales[i].package_id : i \in 1..Len(sales) }

RECURSIVE SumPrices(_)
SumPrices(log) == IF log = <<>> THEN 0 ELSE Head(log).price + SumPrices(Tail(log))

\* text contains word, letter case ignored.
ContainsIgnoreCase(text, word) ==
    \E i \in 0..(Len(text) - Len(word)) :
        \A j \in 1..Len(word) : LowerChar(text[i + j]) = LowerChar(word[j])

RoiOf(intel) ==
    IF "roi_percentage" \in DOMAIN intel.investment_opportunity
    THEN intel.investment_opportunity.roi_percentage
    ELSE 0

VisualScoreOf(intel) ==
    IF "overall_visual_score" \in DOMAIN intel.geometric_analysis
    THEN intel.geometric_analysis.overall_visual_score
    ELSE 0

\* C1: in every reachable state each package of lead_packages has at most one
\* listing whose full_package_id is its package_id, and a package a purchase
\* has succeeded for has none.
C1_OneListingNoneOncePurchased ==
    \A package_id \in DOMAIN lead_packages :
        /\ Cardinality(ListingsOf(package_id)) <= 1
        /\ package_id \in Purchased => ListingsOf(package_id) = {}

\* C2: the step that completes a successful purchase of package P removes
\* exactly the listings whose full_package_id is P, leaves every other listing,
\* every package and every investor as they were, adds 1 to packages_sold and
\* the price of P to total_sales.
C2_PurchaseFrame ==
    [][ \A c \in BagToSet(purchase_calls) :
          purchase_calls' = purchase_calls (-) One(c) =>
            /\ marketplace_listings' =
                 [ l \in { k \in DOMAIN marketplace_listings :
                             marketplace_listings[k].full_package_id # c.package_id }
                     |-> marketplace_listings[l] ]
            /\ lead_packages' = lead_packages
            /\ investors' = investors
            /\ revenue_metrics'.packages_sold = revenue_metrics.packages_sold + 1
            /\ revenue_metrics'.total_sales = revenue_metrics.total_sales + c.package.price
      ]_vars

\* C2 has happened: a purchase went through, its listing is gone and the listing
\* of another package is still there.
C2_Witness ==
    /\ Len(sales) = 1
    /\ ListingsOf(sales[1].package_id) = {}
    /\ DOMAIN marketplace_listings # {}
    /\ revenue_metrics.packages_sold = 1

\* C3: a process_purchase call whose payment intent comes back in a status other
\* than succeeded answers purchase_successful = false with an error reason, and
\* leaves investors, lead_packages, marketplace_listings and revenue_metrics
\* as they were.
C3_PaymentFailureLeavesState ==
    [][ ( /\ last_response' # last_response
          /\ last_response'.op = "process_purchase"
          /\ last_response'.payment \notin {"not_attempted", "raised", "succeeded"} )
        => /\ last_response'.status = 200
           /\ last_response'.body.purchase_successful = FALSE
           /\ "error" \in DOMAIN last_response'.body
           /\ UNCHANGED <<investors, lead_packages, marketplace_listings, revenue_metrics>>
      ]_vars

\* C3 has happened: a payment failed for a package that is listed, after a sale.
C3_Witness ==
    /\ last_response.op = "process_purchase"
    /\ last_response.payment = "requires_payment_method"
    /\ last_response.body.purchase_successful = FALSE
    /\ ListingsOf(last_response.request.package_id) # {}
    /\ revenue_metrics.packages_sold = 1

\* C4: a process_purchase call whose package_id is not in lead_packages, or whose
\* investor_id is not in investors, ends in a 404 with no payment attempted and
\* leaves lead_packages, marketplace_listings and revenue_metrics as they were.
C4_UnknownIdIs404 ==
    [][ ( /\ last_response' # last_response
          /\ last_response'.op = "process_purchase"
          /\ \/ last_response'.request.package_id \notin DOMAIN lead_packages
             \/ last_response'.request.investor_id \notin DOMAIN investors )
        => /\ last_response'.status = 404
           /\ last_response'.payment = "not_attempted"
           /\ UNCHANGED <<lead_packages, marketplace_listings, revenue_metrics,
                          purchase_calls>>
      ]_vars

\* C4 has happened: an unknown investor asked for a package that exists and is
\* listed, and got a 404.
C4_Witness ==
    /\ last_response.op = "process_purchase"
    /\ last_response.status = 404
    /\ last_response.request.package_id \in DOMAIN lead_packages
    /\ last_response.request.investor_id \notin DOMAIN investors
    /\ ListingsOf(last_response.request.package_id) # {}

\* C5: the step that handles a request body registers a package for it exactly
\* when overall_score >= 40 and roi_percentage >= 10; otherwise it answers
\* package_created = false with status 200, adds nothing to lead_packages or
\* marketplace_listings, schedules no matching and emits no notification.
C5_Gate ==
    [][ ( inbox # <<>> /\ inbox' = Tail(inbox) ) =>
          LET intel == Head(inbox)
              package_id == <<intel.property.zpid, now>>
          IN  IF intel.distress_signals.overall_score >= 40 /\ RoiOf(intel) >= 10
              THEN /\ package_id \in DOMAIN lead_packages'
                   /\ lead_packages'[package_id].property_intelligence = intel
                   /\ BagCardinality(lead_calls') = BagCardinality(lead_calls) + 1
              ELSE /\ last_response'.op = "process_overflow_lead"
                   /\ last_response'.status = 200
                   /\ last_response'.body.package_created = FALSE
                   /\ UNCHANGED <<lead_packages, marketplace_listings, lead_calls, emitted>>
      ]_vars

\* C5 has happened on the inclusive boundary: a package with score 40 and ROI 10.
C5_Witness ==
    \E package_id \in DOMAIN lead_packages :
        LET intel == lead_packages[package_id].property_intelligence
        IN  intel.distress_signals.overall_score = 40 /\ RoiOf(intel) = 10

PlatinumRule(intel) ==
    /\ intel.distress_signals.overall_score > 70
    /\ RoiOf(intel) > 20
    /\ intel.contract_recommendation = "IMMEDIATE_OFFER"

GoldRule(intel) ==
    /\ intel.distress_signals.overall_score > 60
    /\ RoiOf(intel) > 15
    /\ VisualScoreOf(intel) > 0

SilverRule(intel) ==
    /\ intel.distress_signals.overall_score > 50
    /\ RoiOf(intel) > 12
    /\ intel.property.photos # <<>>

\* C6: the tier of every package is that of the first rule its property meets,
\* platinum, gold, silver in this order, and bronze when it meets none; a
\* property that meets the platinum rule is platinum whatever else it meets.
C6_FirstMatchWins ==
    \A package_id \in DOMAIN lead_packages :
        LET package == lead_packages[package_id]
            intel == package.property_intelligence
        IN  /\ PlatinumRule(intel) => package.lead_tier = "platinum"
            /\ (~ PlatinumRule(intel) /\ GoldRule(intel)) => package.lead_tier = "gold"
            /\ (~ PlatinumRule(intel) /\ ~ GoldRule(intel) /\ SilverRule(intel))
                   => package.lead_tier = "silver"
            /\ (~ PlatinumRule(intel) /\ ~ GoldRule(intel) /\ ~ SilverRule(intel))
                   => package.lead_tier = "bronze"

\* C6 has happened: a platinum package whose property meets all three rules.
C6_Witness ==
    \E package_id \in DOMAIN lead_packages :
        LET package == lead_packages[package_id]
            intel == package.property_intelligence
        IN  /\ PlatinumRule(intel) /\ GoldRule(intel) /\ SilverRule(intel)
            /\ package.lead_tier = "platinum"

HotCities == { <<"a","u","s","t","i","n">>, <<"d","a","l","l","a","s">>,
               <<"h","o","u","s","t","o","n">>, <<"a","t","l","a","n","t","a">>,
               <<"p","h","o","e","n","i","x">> }

TierBasePrice(tier) ==
    CASE tier = "bronze" -> 50
      [] tier = "silver" -> 150
      [] tier = "gold" -> 300
      [] tier = "platinum" -> 500

\* C7: the price of every package is the base price of its tier (bronze 50,
\* silver 150, gold 300, platinum 500) times 1.5 when its neighborhood contains
\* a hot-market city name, letter case ignored, and times 1.0 otherwise; silver
\* in "North Austin Heights" is 225 and silver in "Topeka" is 150.
C7_Price ==
    \A package_id \in DOMAIN lead_packages :
        LET package == lead_packages[package_id]
            neighborhood == package.property_intelligence.property.neighborhood
            hot == \E city \in HotCities : ContainsIgnoreCase(neighborhood, city)
        IN  /\ 10 * package.price =
                 TierBasePrice(package.lead_tier) * (IF hot THEN 15 ELSE 10)
            /\ (package.lead_tier = "silver" /\ neighborhood = NorthAustinHeights)
                   => package.price = 225
            /\ (package.lead_tier = "silver" /\ neighborhood = Topeka)
                   => package.price = 150

\* C7 has happened: a silver package in North Austin Heights.
C7_Witness ==
    \E package_id \in DOMAIN lead_packages :
        /\ lead_packages[package_id].lead_tier = "silver"
        /\ lead_packages[package_id].property_intelligence.property.neighborhood
               = NorthAustinHeights

TierRank(tier) ==
    CASE tier = "bronze" -> 1
      [] tier = "silver" -> 2
      [] tier = "gold" -> 3
      [] tier = "platinum" -> 4

\* C8: in every package, bronze has none of the three features, platinum has
\* all three and 24 hours of exclusivity, every other tier has 12 hours; two
\* packages of one tier have the same flags and hours, and of two packages the
\* one of the higher tier has every feature the other has and no fewer hours.
C8_FlagsFollowTier ==
    /\ \A package_id \in DOMAIN lead_packages :
         LET package == lead_packages[package_id]
         IN  /\ package.lead_tier = "bronze" =>
                   /\ ~ package.geometric_analysis_included
                   /\ ~ package.contract_template_included
                   /\ ~ package.market_comps_included
             /\ package.lead_tier = "platinum" =>
                   /\ package.geometric_analysis_included
                   /\ package.contract_template_included
                   /\ package.market_comps_included
                   /\ package.exclusive_period_hours = 24
             /\ package.lead_tier # "platinum" => package.exclusive_period_hours = 12
    /\ \A low \in DOMAIN lead_packages, high \in DOMAIN lead_packages :
         LET p == lead_packages[low]
             q == lead_packages[high]
         IN  TierRank(p.lead_tier) <= TierRank(q.lead_tier) =>
               /\ p.geometric_analysis_included => q.geometric_analysis_included
               /\ p.contract_template_included => q.contract_template_included
               /\ p.market_comps_included => q.market_comps_included
               /\ p.exclusive_period_hours <= q.exclusive_period_hours

\* C8 has happened: a gold and a platinum package side by side.
C8_Witness ==
    \E low \in DOMAIN lead_packages, high \in DOMAIN lead_packages :
        /\ lead_packages[low].lead_tier = "gold"
        /\ lead_packages[high].lead_tier = "platinum"

\* C9: the matching run for a package notifies a registered investor exactly
\* when one of the investor's preferred markets occurs in the address, letter
\* case ignored, the price is within [min, max] with both ends included, and
\* the property type is one the investor accepts; nobody else is notified.
C9_NotifiedIffAllThree ==
    [][ \A c \in BagToSet(lead_calls) :
          ( /\ ~ c.match_done
            /\ lead_calls' = (lead_calls (-) One(c)) (+) One([c EXCEPT !.match_done = TRUE]) )
          => LET prop == c.package.property_intelligence.property
                 notified == { n.payload.investor_id : n \in emitted' }
             IN  /\ notified \subseteq DOMAIN investors
                 /\ \A n \in emitted' : n.payload.package_id = c.package.package_id
                 /\ \A i \in DOMAIN investors :
                      i \in notified <=>
                        /\ \E m \in 1..Len(investors[i].preferred_markets) :
                             ContainsIgnoreCase(prop.address,
                                                investors[i].preferred_markets[m])
                        /\ investors[i].price_range.min <= prop.price
                        /\ prop.price <= investors[i].price_range.max
                        /\ prop.property_type \in investors[i].property_types
      ]_vars

\* C9 has happened: a property at the low end of the range of inv1 was matched
\* and inv1 was notified, while inv2, whose range ends below the price, was not.
C9_Witness ==
    /\ DOMAIN investors = {"inv1", "inv2"}
    /\ { n.payload.investor_id : n \in emitted } = {"inv1"}
    /\ \E n \in emitted :
         lead_packages[n.payload.package_id].property_intelligence.property.price
             = investors["inv1"].price_range.min

\* C10 as stated: two purchases of different packages that were suspended at the
\* await together and have both returned lost an update of revenue_metrics.
C10_UpdateLost ==
    ( /\ overlapped
      /\ BagCardinality(purchase_calls) = 0
      /\ Len(sales) >= 2 )
    => \/ revenue_metrics.packages_sold < Len(sales)
       \/ revenue_metrics.total_sales < SumPrices(sales)

\* C10 as amended: no update is lost.  packages_sold is the number of purchases
\* that succeeded and total_sales the sum of their prices, however the calls
\* interleave at the await.
C10_NoUpdateLost ==
    /\ revenue_metrics.packages_sold = Len(sales)
    /\ revenue_metrics.total_sales = SumPrices(sales)

\* C10 has happened: two purchases of different packages overlapped and returned.
C10_Witness ==
    /\ overlapped
    /\ BagCardinality(purchase_calls) = 0
    /\ Len(sales) = 2
    /\ sales[1].package_id # sales[2].package_id

\* The analyzer calls that have returned or raised, with what came out.
Analysed == { i \in DOMAIN analysis : analysis[i].outcome # NoValue }

\* C11: the market_value of every analysis is the zestimate when the property
\* has one, a zestimate of 0 included, and the price only when it has none.
C11_MarketValueIsZestimate ==
    \A i \in Analysed :
        LET property == analysis[i].property
            result == analysis[i].outcome[1]
        IN  result.raised = "nothing" =>
                /\ property.zestimate # NoValue
                       => result.market_value = property.zestimate[1]
                /\ property.zestimate = NoValue => result.market_value = property.price

C13_PayloadFollowsFlags ==
    [][ \A c \in BagToSet(purchase_calls) :
          purchase_calls' = purchase_calls (-) One(c) =>
            LET package_data == last_response'.body.package_data
            IN  /\ package_data.geometric_analysis # NoValue
                       => c.package.geometric_analysis_included
                /\ package_data.market_comps # NoValue => c.package.market_comps_included
                /\ package_data.contract_template # NoValue
                       => c.package.contract_template_included
      ]_vars

\* C14: no package is purchased twice, and packages_sold is at most the number of
\* packages created.
C14_PurchasedAtMostOnce ==
    /\ \A i, j \in 1..Len(sales) : sales[i].package_id = sales[j].package_id => i = j
    /\ revenue_metrics.packages_sold <= Cardinality(DOMAIN lead_packages)

\* C15: lead_packages has one entry for every accepted lead.
C15_OnePackagePerAcceptedLead ==
    Cardinality(DOMAIN lead_packages) = accepted

====
